---- MODULE Spec2Model ----
(***************************************************************************)
(* Model of the UDP port scanner (src/udp_scanner.c; the probe state       *)
(* machine of src/udp_scanner_extended.c is the same code).                *)
(*                                                                         *)
(* The program is one sequential process: main validates its arguments,    *)
(* then for each port calls scan_udp_port, which opens a UDP socket and a  *)
(* raw ICMP socket, looks the probe up, and runs the retry loop            *)
(* send_udp_probe / receive_response.  The environment (socket(), sendto(),*)
(* select(), recvfrom()) is a nondeterministic choice in each action.      *)
(***************************************************************************)
EXTENDS Integers, Sequences, FiniteSets, TLC

(***************************************************************************)
(* Bounds of the model.                                                    *)
(***************************************************************************)
\* end_port is drawn from start_port-1 .. start_port+MaxSpan
MaxSpan == 1
\* a UDP reply has 0..MaxReply bytes (recvfrom may also return -1)
MaxReply == 1
\* besides port-unreachable, the ICMP codes 0..MaxOtherCode are delivered
\* (0 net, 1 host, 2 protocol, 4 fragmentation needed, ...)
MaxOtherCode == 1

(***************************************************************************)
(* Program constants.                                                      *)
(***************************************************************************)
MAX_RETRIES == 2
TIMEOUT_SEC == 2
ICMP_UNREACH == 3
ICMP_UNREACH_PORT == 3

(***************************************************************************)
(* The protocol database of udp_scanner.c: port, service name, payload     *)
(* (named by its array) and payload length, in table order.                *)
(***************************************************************************)
udp_probes ==
  << [port |-> 53,   service_name |-> "DNS",     payload |-> "dns_probe",     payload_len |-> 30],
     [port |-> 123,  service_name |-> "NTP",     payload |-> "ntp_probe",     payload_len |-> 40],
     [port |-> 161,  service_name |-> "SNMP",    payload |-> "snmp_probe",    payload_len |-> 40],
     [port |-> 67,   service_name |-> "DHCP",    payload |-> "dhcp_probe",    payload_len |-> 244],
     [port |-> 68,   service_name |-> "DHCP",    payload |-> "dhcp_probe",    payload_len |-> 244],
     [port |-> 137,  service_name |-> "NetBIOS", payload |-> "netbios_probe", payload_len |-> 49],
     [port |-> 138,  service_name |-> "NetBIOS", payload |-> "netbios_probe", payload_len |-> 49],
     [port |-> 5060, service_name |-> "SIP",     payload |-> "sip_probe",     payload_len |-> 176],
     [port |-> 69,   service_name |-> "TFTP",    payload |-> "empty_probe",   payload_len |-> 0],
     [port |-> 514,  service_name |-> "Syslog",  payload |-> "empty_probe",   payload_len |-> 0],
     [port |-> 520,  service_name |-> "RIP",     payload |-> "empty_probe",   payload_len |-> 0],
     [port |-> 1900, service_name |-> "SSDP",    payload |-> "empty_probe",   payload_len |-> 0] >>

(***************************************************************************)
(* The protocol database of udp_scanner_extended.c, in table order; port   *)
(* 53 has two entries.                                                     *)
(***************************************************************************)
udp_probes_extended ==
  << [port |-> 7, service_name |-> "Echo", payload |-> "echo_probe", payload_len |-> 4],
     [port |-> 53, service_name |-> "DNS", payload |-> "dns_status_probe", payload_len |-> 12],
     [port |-> 53, service_name |-> "DNS", payload |-> "dns_version_probe", payload_len |-> 30],
     [port |-> 67, service_name |-> "DHCP Server", payload |-> "dhcp_probe", payload_len |-> 240],
     [port |-> 68, service_name |-> "DHCP Client", payload |-> "dhcp_probe", payload_len |-> 240],
     [port |-> 69, service_name |-> "TFTP", payload |-> "tftp_probe", payload_len |-> 17],
     [port |-> 111, service_name |-> "RPC/Portmap", payload |-> "rpc_probe", payload_len |-> 40],
     [port |-> 123, service_name |-> "NTP", payload |-> "ntp_probe", payload_len |-> 48],
     [port |-> 135, service_name |-> "MS-RPC", payload |-> "dcerpc_probe", payload_len |-> 72],
     [port |-> 137, service_name |-> "NetBIOS-NS", payload |-> "netbios_probe", payload_len |-> 50],
     [port |-> 138, service_name |-> "NetBIOS-DGM", payload |-> "netbios_probe", payload_len |-> 50],
     [port |-> 161, service_name |-> "SNMP", payload |-> "snmp_v1_probe", payload_len |-> 40],
     [port |-> 162, service_name |-> "SNMP Trap", payload |-> "snmp_v1_probe", payload_len |-> 40],
     [port |-> 177, service_name |-> "XDMCP", payload |-> "xdmcp_probe", payload_len |-> 7],
     [port |-> 389, service_name |-> "CLDAP", payload |-> "cldap_probe", payload_len |-> 51],
     [port |-> 427, service_name |-> "SLP", payload |-> "slp_probe", payload_len |-> 54],
     [port |-> 443, service_name |-> "DTLS", payload |-> "dtls_probe", payload_len |-> 67],
     [port |-> 500, service_name |-> "IKE/IPSec", payload |-> "ike_probe", payload_len |-> 84],
     [port |-> 514, service_name |-> "Syslog", payload |-> "empty_probe", payload_len |-> 0],
     [port |-> 520, service_name |-> "RIP", payload |-> "rip_probe", payload_len |-> 24],
     [port |-> 623, service_name |-> "IPMI", payload |-> "ipmi_probe", payload_len |-> 12],
     [port |-> 1194, service_name |-> "OpenVPN", payload |-> "openvpn_probe", payload_len |-> 13],
     [port |-> 1604, service_name |-> "Citrix", payload |-> "citrix_probe", payload_len |-> 30],
     [port |-> 1645, service_name |-> "RADIUS", payload |-> "radius_probe", payload_len |-> 20],
     [port |-> 1701, service_name |-> "L2TP", payload |-> "l2tp_probe", payload_len |-> 60],
     [port |-> 1812, service_name |-> "RADIUS", payload |-> "radius_probe", payload_len |-> 20],
     [port |-> 1900, service_name |-> "SSDP/UPnP", payload |-> "ssdp_probe", payload_len |-> 94],
     [port |-> 2049, service_name |-> "NFS", payload |-> "nfs_probe", payload_len |-> 40],
     [port |-> 2123, service_name |-> "GTP-C", payload |-> "gtp_probe", payload_len |-> 12],
     [port |-> 2152, service_name |-> "GTP-U", payload |-> "gtp_probe", payload_len |-> 12],
     [port |-> 3478, service_name |-> "STUN", payload |-> "stun_probe", payload_len |-> 20],
     [port |-> 3784, service_name |-> "Ventrilo", payload |-> "empty_probe", payload_len |-> 0],
     [port |-> 4500, service_name |-> "IPSec NAT-T", payload |-> "ike_probe", payload_len |-> 84],
     [port |-> 4665, service_name |-> "eDonkey", payload |-> "kad_probe", payload_len |-> 2],
     [port |-> 5060, service_name |-> "SIP", payload |-> "sip_probe", payload_len |-> 176],
     [port |-> 5351, service_name |-> "NAT-PMP", payload |-> "natpmp_probe", payload_len |-> 2],
     [port |-> 5353, service_name |-> "mDNS", payload |-> "mdns_probe", payload_len |-> 46],
     [port |-> 5683, service_name |-> "CoAP", payload |-> "coap_probe", payload_len |-> 21],
     [port |-> 6481, service_name |-> "STDiscovery", payload |-> "empty_probe", payload_len |-> 0],
     [port |-> 8767, service_name |-> "TeamSpeak2", payload |-> "empty_probe", payload_len |-> 0],
     [port |-> 9987, service_name |-> "TeamSpeak3", payload |-> "empty_probe", payload_len |-> 0],
     [port |-> 10080, service_name |-> "Amanda", payload |-> "empty_probe", payload_len |-> 0],
     [port |-> 11211, service_name |-> "Memcached", payload |-> "memcached_probe", payload_len |-> 17],
     [port |-> 17185, service_name |-> "VxWorks", payload |-> "vxworks_probe", payload_len |-> 64],
     [port |-> 26000, service_name |-> "Quake3", payload |-> "quake3_probe", payload_len |-> 13],
     [port |-> 27015, service_name |-> "Steam", payload |-> "steam_probe", payload_len |-> 25],
     [port |-> 27960, service_name |-> "Quake3", payload |-> "quake3_probe", payload_len |-> 13],
     [port |-> 64738, service_name |-> "Mumble", payload |-> "empty_probe", payload_len |-> 0] >>

\* the table of the program that runs: "basic" or "extended"
Table(v) == IF v = "extended" THEN udp_probes_extended ELSE udp_probes

\* the probe used when the table has no entry for the port (service_name NULL)
GenericProbe == [port |-> 0, service_name |-> "unknown", payload |-> "empty_probe", payload_len |-> 0]

\* get_probe_for_port on table T: index of the first entry for the port from
\* index k on, 0 for NULL
RECURSIVE FirstMatch(_, _, _)
FirstMatch(T, p, k) ==
  IF k > Len(T) THEN 0
  ELSE IF T[k].port = p THEN k
  ELSE FirstMatch(T, p, k + 1)

\* variant: the loop does not return at the first hit, the last one wins
RECURSIVE LastMatch(_, _, _)
LastMatch(T, p, k) ==
  IF k = 0 THEN 0
  ELSE IF T[k].port = p THEN k
  ELSE LastMatch(T, p, k - 1)

get_probe_for_port_LastMatch(T, p) == LastMatch(T, p, Len(T))

get_probe_for_port(T, p) == FirstMatch(T, p, 1)

\* the probe scan_udp_port ends up with: the table entry or the empty probe
SelectProbe(T, p) ==
  IF get_probe_for_port(T, p) # 0 THEN T[get_probe_for_port(T, p)] ELSE GenericProbe

(***************************************************************************)
(* What one call of receive_response can meet: the return value of         *)
(* select(), which descriptors it left set, and what each recvfrom()       *)
(* returns.  For the raw socket, icmp_type and icmp_code are the two bytes *)
(* the code reads at offset ip_hl << 2 of its buffer; orig is the          *)
(* destination port of the datagram that a destination-unreachable message *)
(* quotes (0 when there is none), which the code never reads.              *)
(***************************************************************************)
Quiet(r) == [ret |-> r, udp_set |-> FALSE, udp_n |-> 0, icmp_set |-> FALSE,
             icmp_n |-> 0, ip_hl |-> 0, icmp_type |-> 0, icmp_code |-> 0, orig |-> 0]

UdpCases == {[udp_set |-> FALSE, udp_n |-> 0]}
            \cup {[udp_set |-> TRUE, udp_n |-> n] : n \in -1..MaxReply}

\* the ICMP types delivered: echo reply (0) and destination unreachable
IcmpTypes == {0, ICMP_UNREACH}

IcmpCodes == {ICMP_UNREACH_PORT} \cup 0..MaxOtherCode

\* recvfrom on the raw socket fails (-1), returns nothing (0), or returns a
\* 20-byte IP header (ip_hl = 5) followed by the 8-byte ICMP header
IcmpCases ==
  {[icmp_set |-> FALSE, icmp_n |-> 0, ip_hl |-> 0, icmp_type |-> 0, icmp_code |-> 0]}
  \cup {[icmp_set |-> TRUE, icmp_n |-> n, ip_hl |-> 0, icmp_type |-> 0, icmp_code |-> 0]
          : n \in {-1, 0}}
  \cup {[icmp_set |-> TRUE, icmp_n |-> 28, ip_hl |-> 5,
         icmp_type |-> t, icmp_code |-> c] : t \in IcmpTypes, c \in IcmpCodes}

Card(b) == IF b THEN 1 ELSE 0

\* select() reports 1 or 2 readable sockets; M is what the raw socket can hold
ReadyOf(M) ==
  {[ret |-> Card(u.udp_set) + Card(m.icmp_set),
    udp_set |-> u.udp_set, udp_n |-> u.udp_n,
    icmp_set |-> m.icmp_set, icmp_n |-> m.icmp_n, ip_hl |-> m.ip_hl,
    icmp_type |-> m.icmp_type, icmp_code |-> m.icmp_code, orig |-> 0]
     : u \in UdpCases, m \in M} \ {Quiet(0)}

ReadyEvents == ReadyOf(IcmpCases)

\* select() fails (-1), times out (0), or reports 1 or 2 readable sockets
Events == {Quiet(-1), Quiet(0)} \cup ReadyEvents

NoEvent == Quiet(-2)

\* A raw socket is handed every datagram of protocol ICMP whose IP header is
\* well-formed: a header of 5 to 15 words, followed by whatever the sender
\* put behind it, which may be less than an ICMP header.
IpHeaderWords == 5..15

\* bytes behind the IP header: none, the type byte alone, a whole ICMP header
IcmpBytes == {0, 1, 8}

\* the datagrams of all these shapes.  icmp_type and icmp_code are still the
\* two bytes at offset ip_hl << 2 of the buffer: where the datagram is shorter
\* than that they are bytes recvfrom() did not write, which hold anything
AnyIcmpCases ==
  IcmpCases
  \cup {[icmp_set |-> TRUE, icmp_n |-> 4 * h + b, ip_hl |-> h, icmp_type |-> t, icmp_code |-> c]
          : h \in IpHeaderWords, b \in IcmpBytes, t \in IcmpTypes, c \in IcmpCodes}

\* what select() and recvfrom() can return on a wire w: "whole" when every
\* ICMP datagram has a 20-byte IP header and an 8-byte ICMP header, "any"
\* when it has any of the shapes above
EventsOn(w) ==
  IF w = "any" THEN {Quiet(-1), Quiet(0)} \cup ReadyOf(AnyIcmpCases) ELSE Events

\* a raw socket receives every ICMP datagram that reaches the host: the
\* message read during port p may answer a probe sent to p, or a probe of a
\* port finished earlier that was still unanswered when its scan ended
Unanswered(h) ==
  h.sent > Cardinality({k \in 1..Len(h.attempts) : h.attempts[k].sel = "ready"})

Origins(p, hist) == {p} \cup {hist[k].port : k \in {j \in 1..Len(hist) : Unanswered(hist[j])}}

\* only a destination-unreachable message quotes a datagram
Quotes(e) == e.icmp_set /\ e.icmp_n > 0 /\ e.icmp_type = ICMP_UNREACH

Quoting(e, q) == IF Quotes(e) THEN [e EXCEPT !.orig = q] ELSE e

\* the three ways select() returns
Kind(e) == IF e.ret < 0 THEN "error" ELSE IF e.ret = 0 THEN "timeout" ELSE "ready"

(***************************************************************************)
(* receive_response.  The outcome is the return value, the statistics      *)
(* counter it increments, and the numbers printed on the output line.      *)
(***************************************************************************)
Outcome(r, c, b, t, k) == [result |-> r, counter |-> c, bytes |-> b, type |-> t, code |-> k]

NoOutcome == Outcome(-2, "none", 0, 0, 0)

\* variant: a timeout is taken for a wait without verdict
OnTimeout_NoVerdict == [result |-> -1, counter |-> "none", bytes |-> 0, type |-> 0, code |-> 0]

\* select() returned 0
OnTimeout == Outcome(1, "filtered", 0, 0, 0)

\* the test on the byte count of the UDP recvfrom
UdpReplyAccepted(n) == n > 0

\* variant: every destination-unreachable is taken for port-unreachable
IcmpOutcome_AnyCodeCloses(t, k) ==
  IF t = ICMP_UNREACH
  THEN [result |-> 2, counter |-> "closed", bytes |-> 0, type |-> t, code |-> k]
  ELSE [result |-> -1, counter |-> "none", bytes |-> 0, type |-> 0, code |-> 0]

\* the classification of the ICMP header read from the raw socket
IcmpOutcome(t, k) ==
  IF t = ICMP_UNREACH
  THEN IF k = ICMP_UNREACH_PORT
       THEN Outcome(2, "closed", 0, t, k)
       ELSE Outcome(3, "filtered", 0, t, k)
  ELSE Outcome(-1, "none", 0, 0, 0)

\* variant: a destination-unreachable message is only taken when the datagram
\* it quotes was sent to the port being probed
IcmpDatagramAccepted_Correlated(e, p) ==
  e.icmp_n > 0 /\ (e.icmp_type = ICMP_UNREACH => e.orig = p)

\* the test on the datagram read from the raw socket: its byte count, nothing
\* of what it quotes (p is the port parameter, which is only printed)
IcmpDatagramAccepted(e, p) == e.icmp_n > 0

\* p is the port parameter of the call
receive_response(e, p) ==
  IF e.ret < 0 THEN Outcome(-1, "none", 0, 0, 0)
  ELSE IF e.ret = 0 THEN OnTimeout
  ELSE IF e.udp_set /\ UdpReplyAccepted(e.udp_n) THEN Outcome(0, "open", e.udp_n, 0, 0)
  ELSE IF e.icmp_set /\ IcmpDatagramAccepted(e, p) THEN IcmpOutcome(e.icmp_type, e.icmp_code)
  ELSE Outcome(-1, "none", 0, 0, 0)

\* variant: the timeout is armed once and select() goes on with what an
\* earlier wait left of it (select() writes the time not slept back to tv)
ArmTimer_KeepRemaining(left) == left

\* tv.tv_sec = TIMEOUT_SEC; tv.tv_usec = TIMEOUT_USEC before every select():
\* what an earlier call left in a timeval is not used
ArmTimer(left) == TIMEOUT_SEC

\* the whole seconds select() can take when called with a timeout of tv and
\* returning r: the timeout outcome means that all of tv has gone by, an
\* error or a readable socket comes at any moment up to then
Elapsed(r, tv) == IF r = 0 THEN {tv} ELSE 0..tv

\* the clock of a run whose waits are timed: left is what the latest
\* select() left of its timeout, armed the timeout it was called with, dt
\* the time it took, waited the time spent in select() for the current port
ClockStart == [on |-> TRUE, left |-> TIMEOUT_SEC, armed |-> 0, dt |-> 0, waited |-> 0]

\* the clock of a run whose waits are not timed
ClockOff == [on |-> FALSE, left |-> 0, armed |-> 0, dt |-> 0, waited |-> 0]

\* the clock after a select() armed with tv that took dt
Tick(c, tv, dt) ==
  IF c.on
  THEN [on |-> TRUE, left |-> tv - dt, armed |-> tv, dt |-> dt, waited |-> c.waited + dt]
  ELSE c

\* variant: receive_response leaves the filtered counter to its caller
Bump_FilteredUncounted(s, c) ==
  IF c = "open" THEN [s EXCEPT !.open_ports = @ + 1]
  ELSE IF c = "closed" THEN [s EXCEPT !.closed_ports = @ + 1]
  ELSE s

\* stats.<counter>++
Bump(s, c) ==
  IF c = "open" THEN [s EXCEPT !.open_ports = @ + 1]
  ELSE IF c = "closed" THEN [s EXCEPT !.closed_ports = @ + 1]
  ELSE IF c = "filtered" THEN [s EXCEPT !.filtered_ports = @ + 1]
  ELSE s

(***************************************************************************)
(* scan_udp_port: the tests of the retry loop.                             *)
(***************************************************************************)
\* udp_sock < 0
UdpSocketFailed(fd) == fd < 0

\* variant: the raw socket's descriptor is not looked at
IcmpSocketFailed_Unchecked(fd) == FALSE

\* icmp_sock < 0
IcmpSocketFailed(fd) == fd < 0

\* what a descriptor variable holds after socket() returned fd
Held(fd) == IF fd < 0 THEN "failed" ELSE "open"

\* the sockets each exit path of scan_udp_port closes
ClosedOnIcmpFailure == {"udp"}

\* variant: the send-failure path forgets the raw socket
ClosedOnSendFailure_LeakRaw == {"udp"}

ClosedOnSendFailure == {"udp", "icmp"}

ClosedAtEnd == {"udp", "icmp"}

\* close(): a descriptor variable after the sockets named in S were closed
AfterClose(S, name, state) == IF name \in S /\ state = "open" THEN "closed" ELSE state

\* the process's descriptor table after the same calls: open UDP sockets,
\* open raw sockets, and close() calls on a descriptor already closed
TableAfterClose(S, t, u, m) ==
  [udp |-> t.udp - (IF "udp" \in S /\ u = "open" THEN 1 ELSE 0),
   raw |-> t.raw - (IF "icmp" \in S /\ m = "open" THEN 1 ELSE 0),
   dbl |-> t.dbl + (IF "udp" \in S /\ u = "closed" THEN 1 ELSE 0)
                 + (IF "icmp" \in S /\ m = "closed" THEN 1 ELSE 0)]

\* variant: the return value of send_udp_probe is not looked at
SendFailed_Unchecked(ret) == FALSE

\* send_udp_probe(...) < 0
SendFailed(ret) == ret < 0

\* variant: a return without verdict ends the loop as well
IsDefinitive_NoVerdictBreaks(result) == result = 0 \/ result = 2 \/ result < 0

\* variant: no verdict ends the loop early
IsDefinitive_Never(result) == FALSE

\* variant: only Open ends the loop
IsDefinitive_OpenOnly(result) == result = 0

\* result == 0 || result == 2
IsDefinitive(result) == result = 0 \/ result = 2

\* variant: the loop has no bound, it only ends on a definitive verdict
LoopContinues_Unbounded(k) == TRUE

\* variant: off by one, a third round is entered
LoopContinues_OffByOne(k) == k <= MAX_RETRIES

\* i < MAX_RETRIES
LoopContinues(k) == k < MAX_RETRIES

(***************************************************************************)
(* send_udp_probe: the datagram handed to sendto.  dst is the 16-bit       *)
(* destination port (htons of the int port); a payload_len of 0 sends the  *)
(* empty string instead of the payload.                                    *)
(***************************************************************************)
\* variant: nothing but the empty datagram is ever sent
Datagram_AlwaysEmpty(p, pl, n) == [dst |-> p % 65536, payload |-> "", len |-> 0]

Datagram(p, pl, n) ==
  IF n > 0
  THEN [dst |-> p % 65536, payload |-> pl, len |-> n]
  ELSE [dst |-> p % 65536, payload |-> "", len |-> 0]

(***************************************************************************)
(* main: the argument check.                                               *)
(***************************************************************************)
\* variant: the upper limit of the port numbers is not checked
ValidArgs_NoUpperLimit(n, s, e) ==
  /\ n = 4
  /\ ~(s < 1 \/ e < 1 \/ s > e)

ValidArgs(n, s, e) ==
  /\ n = 4
  /\ ~(s < 1 \/ s > 65535 \/ e < 1 \/ e > 65535 \/ s > e)

\* variant: the scan loop stops one port early
MoreToScan_StopsEarly(p, e) == p < e

\* variant: the scan loop runs one port too far
MoreToScan_OneTooMany(p, e) == p <= e + 1

\* port <= end_port
MoreToScan(p, e) == p <= e

\* variant: a port whose scan was aborted is not counted
CountPort_SkipsAborted(s, a) == IF a = "none" THEN [s EXCEPT !.total_ports = @ + 1] ELSE s

\* stats.total_ports++ after scan_udp_port has returned; how it returned (a)
\* is not known to main, the function returns void
CountPort(s, a) == [s EXCEPT !.total_ports = @ + 1]

StartArgs == {0, 1, 53, 68, 65535}

(***************************************************************************)
(* State.                                                                  *)
(***************************************************************************)
VARIABLES
  pc,          \* position of the program
  argc,        \* number of command-line words
  start_port,  \* atoi(argv[2])
  end_port,    \* atoi(argv[3])
  privileged,  \* the process may create raw sockets
  variant,     \* which program runs: "basic" or "extended"
  wire,        \* the ICMP datagrams the run can meet: "whole" or "any"
  port,        \* main's loop variable
  i,           \* scan_udp_port's loop variable
  udp_sock,    \* "unset", "failed" (socket() returned -1), "open" or "closed"
  icmp_sock,   \* "unset", "failed" (socket() returned -1), "open" or "closed"
  fds,         \* the process's open sockets: counts of UDP and raw descriptors
  probe,       \* payload, payload_len and service_name of scan_udp_port
  stats,       \* the global scan statistics
  ev,          \* what the latest receive_response of this port met
  last,        \* the outcome of the latest receive_response of this port
  sent,        \* probes transmitted to the current port
  waits,       \* calls of receive_response for the current port
  sendrc,      \* what the latest sendto for the current port returned (1: none yet)
  sends,       \* the datagrams transmitted to the current port, in order
  timed,       \* which of stats.start_time and stats.end_time have been taken
  attempts,    \* per call of receive_response for this port: <<event, outcome>>
  abort,       \* why scan_udp_port returned early: "none", "udp", "icmp", "send"
  clock,       \* the time spent in select() for the current port (ClockOff: not timed)
  ext,         \* udp_scanner_extended.c run side by side (ExtOff: not run)
  history      \* one record per port main has finished with

vars == <<pc, argc, start_port, end_port, privileged, variant, wire, port, i, udp_sock, icmp_sock,
          fds, probe, stats, ev, last, sent, waits, sendrc, sends, timed, attempts, abort,
          clock, ext, history>>

ZeroStats == [total_ports |-> 0, open_ports |-> 0, closed_ports |-> 0, filtered_ports |-> 0]

(***************************************************************************)
(* udp_scanner_extended.c, run side by side with the program above: the    *)
(* same arguments, and every call of socket(), sendto(), select() and       *)
(* recvfrom() returns to it what it returns to the other program.  Each     *)
(* operator is one step of the extended program on its own state x; a step  *)
(* offered to it while it is somewhere else leaves it "diverged".           *)
(***************************************************************************)
MAX_RETRIES_extended == 2

ExtStart == [on |-> TRUE, pc |-> "main", port |-> 0, i |-> 0, udp_sock |-> "unset",
             icmp_sock |-> "unset", fds |-> [udp |-> 0, raw |-> 0, dbl |-> 0],
             probe |-> GenericProbe, stats |-> ZeroStats, sent |-> 0, waits |-> 0]

ExtOff == [ExtStart EXCEPT !.on = FALSE, !.pc = "off"]

\* the extended program is not where the step takes place
ExtAt(x, where) == IF x.on /\ x.pc # "off" /\ x.pc # where THEN [x EXCEPT !.pc = "diverged"] ELSE x

\* main of udp_scanner_extended.c up to the first test of the loop
ExtCheckArgs(x, n, s, e) ==
  IF ~x.on \/ x.pc # "main" THEN ExtAt(x, "main")
  ELSE IF n # 4 THEN [x EXCEPT !.pc = "exit1"]
  ELSE IF s < 1 \/ s > 65535 \/ e < 1 \/ e > 65535 \/ s > e THEN [x EXCEPT !.pc = "exit1"]
  ELSE [x EXCEPT !.port = s, !.pc = IF s <= e THEN "scan" ELSE "stats"]

\* scan_udp_port of udp_scanner_extended.c: the UDP socket
ExtCreateUdpSocket(x, fd) ==
  IF ~x.on \/ x.pc # "scan" THEN ExtAt(x, "scan")
  ELSE [x EXCEPT !.udp_sock = Held(fd),
                 !.fds.udp = @ + (IF fd < 0 THEN 0 ELSE 1),
                 !.pc = IF fd < 0 THEN "returned" ELSE "icmp"]

\* the raw socket, the probe lookup and the entry of the loop
ExtCreateIcmpSocket(x, fd) ==
  IF ~x.on \/ x.pc # "icmp" THEN ExtAt(x, "icmp")
  ELSE IF fd < 0
       THEN [x EXCEPT !.icmp_sock = Held(fd),
                      !.udp_sock = AfterClose({"udp"}, "udp", x.udp_sock),
                      !.fds = TableAfterClose({"udp"}, x.fds, x.udp_sock, Held(fd)),
                      !.pc = "returned"]
       ELSE [x EXCEPT !.icmp_sock = Held(fd),
                      !.fds.raw = @ + 1,
                      !.probe = SelectProbe(udp_probes_extended, x.port),
                      !.i = 0,
                      !.pc = IF 0 < MAX_RETRIES_extended THEN "send" ELSE "close"]

\* send_udp_probe(...) < 0 in the loop
ExtSendProbe(x, ret) ==
  IF ~x.on \/ x.pc # "send" THEN ExtAt(x, "send")
  ELSE IF ret < 0
       THEN [x EXCEPT !.udp_sock = AfterClose({"udp", "icmp"}, "udp", x.udp_sock),
                      !.icmp_sock = AfterClose({"udp", "icmp"}, "icmp", x.icmp_sock),
                      !.fds = TableAfterClose({"udp", "icmp"}, x.fds, x.udp_sock, x.icmp_sock),
                      !.pc = "returned"]
       ELSE [x EXCEPT !.sent = @ + 1, !.pc = "recv"]

\* receive_response of udp_scanner_extended.c: return value and counter
receive_response_extended(e, p) ==
  IF e.ret < 0 THEN [result |-> -1, counter |-> "none"]
  ELSE IF e.ret = 0 THEN [result |-> 1, counter |-> "filtered"]
  ELSE IF e.udp_set /\ e.udp_n > 0 THEN [result |-> 0, counter |-> "open"]
  ELSE IF e.icmp_set /\ e.icmp_n > 0 /\ e.icmp_type = ICMP_UNREACH
       THEN IF e.icmp_code = ICMP_UNREACH_PORT
            THEN [result |-> 2, counter |-> "closed"]
            ELSE [result |-> 3, counter |-> "filtered"]
  ELSE [result |-> -1, counter |-> "none"]

\* variant: the extended program makes a third round
ExtLoopContinues_ThreeRounds(k) == k < 3

\* i < MAX_RETRIES in udp_scanner_extended.c
ExtLoopContinues(k) == k < MAX_RETRIES_extended

\* the call of receive_response in the loop, the break test and i++
ExtReceiveResponse(x, e) ==
  IF ~x.on \/ x.pc # "recv" THEN ExtAt(x, "recv")
  ELSE LET o == receive_response_extended(e, x.port)
           y == [x EXCEPT !.stats = Bump(x.stats, o.counter), !.waits = @ + 1]
       IN IF o.result = 0 \/ o.result = 2
          THEN [y EXCEPT !.pc = "close"]
          ELSE [y EXCEPT !.i = @ + 1,
                         !.pc = IF ExtLoopContinues(x.i + 1) THEN "send" ELSE "close"]

\* close(udp_sock); close(icmp_sock) after the loop
ExtCloseSockets(x) ==
  IF ~x.on \/ x.pc # "close" THEN ExtAt(x, "close")
  ELSE [x EXCEPT !.udp_sock = AfterClose({"udp", "icmp"}, "udp", x.udp_sock),
                 !.icmp_sock = AfterClose({"udp", "icmp"}, "icmp", x.icmp_sock),
                 !.fds = TableAfterClose({"udp", "icmp"}, x.fds, x.udp_sock, x.icmp_sock),
                 !.pc = "returned"]

\* main of udp_scanner_extended.c: stats.total_ports++; usleep; port++
ExtNextPort(x, e) ==
  IF ~x.on \/ x.pc # "returned" THEN ExtAt(x, "returned")
  ELSE [x EXCEPT !.stats.total_ports = @ + 1,
                 !.port = @ + 1,
                 !.pc = IF x.port + 1 <= e THEN "scan" ELSE "stats",
                 !.i = 0, !.udp_sock = "unset", !.icmp_sock = "unset",
                 !.probe = GenericProbe, !.sent = 0, !.waits = 0]

\* print_statistics; return 0
ExtPrintStatistics(x) ==
  IF ~x.on \/ x.pc # "stats" THEN ExtAt(x, "stats")
  ELSE [x EXCEPT !.pc = "exit0"]

\* the state at the entry of main of program v, started with a start port of S
InitOf(v, S) ==
  /\ pc = "main"
  /\ argc \in {3, 4}
  /\ start_port \in S
  /\ end_port \in (start_port - 1)..(start_port + MaxSpan)
  /\ privileged \in BOOLEAN
  /\ variant = v
  /\ port = 0
  /\ i = 0
  /\ udp_sock = "unset"
  /\ icmp_sock = "unset"
  /\ fds = [udp |-> 0, raw |-> 0, dbl |-> 0]
  /\ probe = GenericProbe
  /\ stats = ZeroStats
  /\ ev = NoEvent
  /\ last = NoOutcome
  /\ sent = 0
  /\ waits = 0
  /\ sendrc = 1
  /\ sends = <<>>
  /\ timed = [start_time |-> FALSE, end_time |-> FALSE]
  /\ attempts = <<>>
  /\ abort = "none"
  /\ history = <<>>

\* udp_scanner.c
Init == InitOf("basic", StartArgs) /\ clock = ClockOff /\ ext = ExtOff /\ wire = "whole"

\* udp_scanner_extended.c
InitExtended == InitOf("extended", StartArgs) /\ clock = ClockOff /\ ext = ExtOff /\ wire = "whole"

\* udp_scanner.c started on the last but one port, so that a range holds
\* one or two ports and the loop runs up to the end of the port numbers
InitFair == InitOf("basic", {65534}) /\ clock = ClockOff /\ ext = ExtOff /\ wire = "whole"

\* the same start, with the waits timed
InitTimed == InitOf("basic", {65534}) /\ clock = ClockStart /\ ext = ExtOff /\ wire = "whole"

\* udp_scanner.c and udp_scanner_extended.c started with the same arguments
\* on ports 68 (DHCP in both tables) and 69 (TFTP: an empty payload in the
\* one table, 17 bytes in the other)
InitPair == InitOf("basic", {68}) /\ clock = ClockOff /\ ext = ExtStart /\ wire = "whole"

\* udp_scanner.c started on the last port, on a wire that carries ICMP
\* datagrams of any shape
InitWire == InitOf("basic", {65535}) /\ clock = ClockOff /\ ext = ExtOff /\ wire = "any"

portLocals == <<i, udp_sock, icmp_sock, probe, ev, last, sent, waits, sendrc, sends, attempts,
                abort, clock>>
args == <<argc, start_port, end_port, privileged, variant, wire>>

(***************************************************************************)
(* main, up to the first iteration of the scan loop.                       *)
(***************************************************************************)
CheckArgs ==
  /\ pc = "main"
  /\ IF ValidArgs(argc, start_port, end_port)
     THEN /\ timed' = [timed EXCEPT !.start_time = TRUE]
          /\ port' = start_port
          /\ pc' = IF MoreToScan(start_port, end_port) THEN "scan" ELSE "stats"
     ELSE /\ timed' = timed
          /\ port' = port
          /\ pc' = "exit1"
  /\ ext' = ExtCheckArgs(ext, argc, start_port, end_port)
  /\ UNCHANGED <<args, portLocals, fds, stats, history>>

(***************************************************************************)
(* scan_udp_port.                                                          *)
(***************************************************************************)
\* socket(AF_INET, SOCK_DGRAM, IPPROTO_UDP)
CreateUdpSocket ==
  /\ pc = "scan"
  /\ \E fd \in {-1, 3} :
       /\ udp_sock' = Held(fd)
       /\ fds' = [fds EXCEPT !.udp = @ + (IF fd < 0 THEN 0 ELSE 1)]
       /\ ext' = ExtCreateUdpSocket(ext, fd)
       /\ IF UdpSocketFailed(fd)
          THEN /\ abort' = "udp"
               /\ pc' = "returned"
          ELSE /\ abort' = "none"
               /\ pc' = "icmp"
  /\ UNCHANGED <<args, port, i, icmp_sock, probe, stats, ev, last, sent, waits,
                 sendrc, sends, timed, attempts, clock, history>>

\* socket(AF_INET, SOCK_RAW, IPPROTO_ICMP), then the probe lookup and i = 0
CreateIcmpSocket ==
  /\ pc = "icmp"
  /\ \E fd \in (IF privileged THEN {-1, 4} ELSE {-1}) :
     /\ ext' = ExtCreateIcmpSocket(ext, fd)
     /\ IF IcmpSocketFailed(fd)
       THEN /\ icmp_sock' = Held(fd)
            /\ udp_sock' = AfterClose(ClosedOnIcmpFailure, "udp", udp_sock)
            /\ fds' = TableAfterClose(ClosedOnIcmpFailure,
                                      [fds EXCEPT !.raw = @ + (IF fd < 0 THEN 0 ELSE 1)],
                                      udp_sock, Held(fd))
            /\ abort' = "icmp"
            /\ pc' = "returned"
            /\ UNCHANGED <<probe, i>>
       ELSE /\ icmp_sock' = Held(fd)
            /\ fds' = [fds EXCEPT !.raw = @ + (IF fd < 0 THEN 0 ELSE 1)]
            /\ probe' = SelectProbe(Table(variant), port)
            /\ i' = 0
            /\ pc' = IF LoopContinues(0) THEN "send" ELSE "close"
            /\ UNCHANGED <<udp_sock, abort>>
  /\ UNCHANGED <<args, port, stats, ev, last, sent, waits, sendrc, sends, timed, attempts,
                 clock, history>>

\* send_udp_probe and the test of its return value
SendProbe ==
  /\ pc = "send"
  /\ \E ret \in {-1, 0} :
       /\ sendrc' = ret
       /\ ext' = ExtSendProbe(ext, ret)
       /\ sent' = IF ret < 0 THEN sent ELSE sent + 1
       /\ sends' = IF ret < 0 THEN sends
                   ELSE Append(sends, Datagram(port, probe.payload, probe.payload_len))
       /\ IF SendFailed(ret)
          THEN /\ udp_sock' = AfterClose(ClosedOnSendFailure, "udp", udp_sock)
               /\ icmp_sock' = AfterClose(ClosedOnSendFailure, "icmp", icmp_sock)
               /\ fds' = TableAfterClose(ClosedOnSendFailure, fds, udp_sock, icmp_sock)
               /\ abort' = "send"
               /\ pc' = "returned"
          ELSE /\ pc' = "recv"
               /\ UNCHANGED <<udp_sock, icmp_sock, fds, abort>>
  /\ UNCHANGED <<args, port, i, probe, stats, ev, last, waits, timed, attempts, clock,
                 history>>

\* receive_response, then the break test and the loop step
ReceiveResponse ==
  /\ pc = "recv"
  /\ \E d \in EventsOn(wire) : \E q \in (IF Quotes(d) THEN Origins(port, history) ELSE {port}) :
     \E dt \in (IF clock.on THEN Elapsed(d.ret, ArmTimer(clock.left)) ELSE {0}) :
       LET e == Quoting(d, q)
           o == receive_response(e, port)
       IN
         /\ clock' = Tick(clock, ArmTimer(clock.left), dt)
         /\ ext' = ExtReceiveResponse(ext, e)
         /\ ev' = e
         /\ last' = o
         /\ stats' = Bump(stats, o.counter)
         /\ attempts' = Append(attempts, [sel |-> Kind(e), result |-> o.result])
         /\ waits' = waits + 1
         /\ IF IsDefinitive(o.result)
            THEN /\ i' = i
                 /\ pc' = "close"
            ELSE /\ i' = i + 1
                 /\ pc' = IF LoopContinues(i + 1) THEN "send" ELSE "close"
  /\ UNCHANGED <<args, port, udp_sock, icmp_sock, fds, probe, sent, sendrc, sends, timed,
                 abort, history>>

\* close(udp_sock); close(icmp_sock) after the loop
CloseSockets ==
  /\ pc = "close"
  /\ udp_sock' = AfterClose(ClosedAtEnd, "udp", udp_sock)
  /\ icmp_sock' = AfterClose(ClosedAtEnd, "icmp", icmp_sock)
  /\ fds' = TableAfterClose(ClosedAtEnd, fds, udp_sock, icmp_sock)
  /\ ext' = ExtCloseSockets(ext)
  /\ pc' = "returned"
  /\ UNCHANGED <<args, port, i, probe, stats, ev, last, sent, waits, sendrc, sends, timed,
                 attempts, abort, clock, history>>

(***************************************************************************)
(* main: the rest of one iteration of the scan loop, and the end.          *)
(***************************************************************************)
\* stats.total_ports++; usleep; port++; port <= end_port
NextPort ==
  /\ pc = "returned"
  /\ stats' = CountPort(stats, abort)
  /\ history' = Append(history, [port |-> port, attempts |-> attempts,
                                 sent |-> sent, sends |-> sends, abort |-> abort])
  /\ port' = port + 1
  /\ pc' = IF MoreToScan(port + 1, end_port) THEN "scan" ELSE "stats"
  /\ i' = 0
  /\ udp_sock' = "unset"
  /\ icmp_sock' = "unset"
  /\ probe' = GenericProbe
  /\ ev' = NoEvent
  /\ last' = NoOutcome
  /\ sent' = 0
  /\ waits' = 0
  /\ sendrc' = 1
  /\ sends' = <<>>
  /\ attempts' = <<>>
  /\ abort' = "none"
  /\ clock' = IF clock.on THEN ClockStart ELSE clock
  /\ ext' = ExtNextPort(ext, end_port)
  /\ UNCHANGED <<args, fds, timed>>

\* print_statistics; return 0
PrintStatistics ==
  /\ pc = "stats"
  /\ timed' = [timed EXCEPT !.end_time = TRUE]
  /\ pc' = "exit0"
  /\ ext' = ExtPrintStatistics(ext)
  /\ UNCHANGED <<args, port, portLocals, fds, stats, history>>

Next ==
  \/ CheckArgs
  \/ CreateUdpSocket
  \/ CreateIcmpSocket
  \/ SendProbe
  \/ ReceiveResponse
  \/ CloseSockets
  \/ NextPort
  \/ PrintStatistics

Spec == Init /\ [][Next]_vars

SpecExtended == InitExtended /\ [][Next]_vars

\* The program is sequential and every call it makes returns (select is
\* bounded by its timeout), so it keeps taking steps until it exits.
FairSpec == InitFair /\ [][Next]_vars /\ WF_vars(Next)

\* udp_scanner.c with the time spent in select() measured
SpecTimed == InitTimed /\ [][Next]_vars

\* udp_scanner.c and udp_scanner_extended.c side by side
SpecPair == InitPair /\ [][Next]_vars

\* udp_scanner.c reading ICMP datagrams of any shape
SpecWire == InitWire /\ [][Next]_vars

TypeOK ==
  /\ pc \in {"main", "exit1", "scan", "icmp", "send", "recv", "close", "returned", "stats", "exit0"}
  /\ i \in 0..MAX_RETRIES
  /\ sent \in 0..MAX_RETRIES
  /\ variant \in {"basic", "extended"}
  /\ wire \in {"whole", "any"}
  /\ clock.waited \in 0..(MAX_RETRIES * TIMEOUT_SEC)
  /\ ext.pc \in {"off", "main", "exit1", "scan", "icmp", "send", "recv", "close", "returned",
                 "stats", "exit0"}
  /\ ev.ret \in -2..2

(***************************************************************************)
(* Reading the record of a port's attempts.                                *)
(***************************************************************************)
\* the attempts that printed a verdict line (result 0, 1, 2 or 3)
VerdictIdx(as) == {k \in 1..Len(as) : as[k].result # -1}

\* the last verdict printed for a port, -1 when none was
FinalVerdict(as) ==
  IF VerdictIdx(as) = {} THEN -1
  ELSE as[CHOOSE k \in VerdictIdx(as) : \A j \in VerdictIdx(as) : j <= k].result

AllAmbiguous(as) == \A k \in 1..Len(as) : as[k].result \in {1, 3}

AllSilent(as) == \A k \in 1..Len(as) : as[k].sel = "timeout"

\* ports of the history whose last verdict is in S
PortsWith(S) == Cardinality({k \in 1..Len(history) : FinalVerdict(history[k].attempts) \in S})

InPort == pc \in {"icmp", "send", "recv", "close", "returned"}

(***************************************************************************)
(* C1  Retry bound.  While every attempt for the port has ended with an    *)
(* ambiguous verdict (1 OpenOrFiltered, 3 Filtered) at most 2 probes have  *)
(* been sent; when scan_udp_port returns from such a port without a send   *)
(* failure, exactly 2 probes were sent, 2 waits were made, and the port's  *)
(* final verdict is the ambiguous verdict of the second attempt.           *)
(***************************************************************************)
C1_RetryBound ==
  AllAmbiguous(attempts) =>
    /\ sent <= 2
    /\ (pc = "returned" /\ abort = "none") =>
         /\ sent = 2
         /\ waits = 2
         /\ Len(attempts) = 2
         /\ FinalVerdict(attempts) = attempts[2].result
         /\ last.result = attempts[2].result

C1_Witness ==
  /\ pc = "returned"
  /\ abort = "none"
  /\ sent = 2
  /\ Len(attempts) = 2
  /\ attempts[1].result = 1
  /\ attempts[2].result = 3

(***************************************************************************)
(* C2  Retry short-circuit.  An attempt that ends with Open (0) or Closed  *)
(* (2) is the last attempt of its port: the loop is left, the number of    *)
(* probes sent stays the number of that attempt, so a Closed on the first  *)
(* attempt means exactly 1 probe.                                          *)
(***************************************************************************)
C2_ShortCircuit ==
  \A k \in 1..Len(attempts) :
    attempts[k].result \in {0, 2} =>
      /\ k = Len(attempts)
      /\ sent = k
      /\ waits = k
      /\ pc \in {"close", "returned"}

C2_Witness ==
  /\ pc = "returned"
  /\ Len(attempts) = 1
  /\ attempts[1].result = 2
  /\ sent = 1

(***************************************************************************)
(* C3  The statistics change once per port: open + closed + filtered never *)
(* exceeds the number of ports finished plus the one in progress.          *)
(***************************************************************************)
C3_OncePerPort ==
  stats.open_ports + stats.closed_ports + stats.filtered_ports
    <= stats.total_ports + (IF InPort THEN 1 ELSE 0)

(***************************************************************************)
(* C4  End-to-end statistics.  At exit each counter is the number of ports *)
(* whose final verdict maps to it; the range 53..54 with a reply on 53 and *)
(* silence on 54 ends with total 2, open 1, closed 0, filtered 1.          *)
(***************************************************************************)
C4_EndToEnd ==
  pc = "exit0" =>
    /\ stats.open_ports = PortsWith({0})
    /\ stats.closed_ports = PortsWith({2})
    /\ stats.filtered_ports = PortsWith({1, 3})
    /\ ( /\ start_port = 53
         /\ end_port = 54
         /\ history[1].attempts = <<[sel |-> "ready", result |-> 0]>>
         /\ history[2].abort = "none"
         /\ AllSilent(history[2].attempts) )
       => stats = [total_ports |-> 2, open_ports |-> 1, closed_ports |-> 0,
                   filtered_ports |-> 1]

(***************************************************************************)
(* C5  A zero-length UDP reply counts as open: the UDP socket readable and *)
(* a datagram of length 0 read gives Open with byte count 0, the open      *)
(* counter incremented and the loop left.                                  *)
(***************************************************************************)
C5_ZeroLengthOpen ==
  (ev.ret > 0 /\ ev.udp_set /\ ev.udp_n = 0) =>
    /\ last.result = 0
    /\ last.bytes = 0
    /\ last.counter = "open"
    /\ pc \in {"close", "returned"}

(***************************************************************************)
(* C6  Silence is OpenOrFiltered.  A wait that times out gives verdict 1   *)
(* and counts as filtered; a port all of whose waits timed out ends with   *)
(* final verdict OpenOrFiltered, whatever probe the port has.              *)
(***************************************************************************)
C6_Silence ==
  /\ ev.ret = 0 => (last.result = 1 /\ last.counter = "filtered")
  /\ (pc = "returned" /\ abort = "none" /\ AllSilent(attempts)) =>
       (Len(attempts) = 2 /\ FinalVerdict(attempts) = 1)
  /\ \A k \in 1..Len(history) :
       (history[k].abort = "none" /\ AllSilent(history[k].attempts)) =>
         FinalVerdict(history[k].attempts) = 1

\* port 53 (a 30-byte probe) and port 54 (the empty probe), both silent
C6_Witness ==
  /\ pc = "returned"
  /\ abort = "none"
  /\ port = 54
  /\ probe.payload_len = 0
  /\ AllSilent(attempts)
  /\ Len(history) = 1
  /\ history[1].port = 53
  /\ history[1].abort = "none"
  /\ AllSilent(history[1].attempts)

(***************************************************************************)
(* C7  ICMP classification.  With only the raw socket readable and a       *)
(* destination-unreachable datagram read from it, code port-unreachable    *)
(* gives Closed, any other code gives Filtered with that code.             *)
(***************************************************************************)
C7_IcmpClassification ==
  (ev.ret > 0 /\ ~ev.udp_set /\ ev.icmp_set /\ ev.icmp_n > 0 /\ ev.icmp_type = 3) =>
    IF ev.icmp_code = 3
    THEN last.result = 2 /\ last.counter = "closed"
    ELSE /\ last.result = 3
         /\ last.counter = "filtered"
         /\ last.type = 3
         /\ last.code = ev.icmp_code

C7_Witness ==
  /\ ev.ret = 1
  /\ ~ev.udp_set
  /\ ev.icmp_set
  /\ ev.icmp_type = 3
  /\ ev.icmp_code = 1
  /\ last.result = 3
  /\ last.code = 1

(***************************************************************************)
(* C8  An ICMP message of another type than destination-unreachable is     *)
(* ignored inside the attempt: after it the classifier is still waiting in *)
(* the same attempt, no attempt is used up, no probe is sent, no counter   *)
(* changes.                                                                *)
(***************************************************************************)
C8_IgnoredIcmp ==
  [][ ( /\ pc = "recv"
        /\ ev'.ret > 0
        /\ ~ev'.udp_set
        /\ ev'.icmp_set
        /\ ev'.icmp_n > 0
        /\ ev'.icmp_type # 3 )
      => ( /\ pc' = "recv"
           /\ i' = i
           /\ sent' = sent
           /\ stats' = stats ) ]_vars

(***************************************************************************)
(* C9  UDP priority.  When both sockets are readable in one wait cycle and *)
(* a UDP datagram (of any length, 0 included) is read, the verdict is Open.*)
(***************************************************************************)
C9_UdpPriority ==
  (ev.ret > 0 /\ ev.udp_set /\ ev.icmp_set /\ ev.udp_n >= 0) =>
    (last.result = 0 /\ last.counter = "open")

(***************************************************************************)
(* C10  Send failure.  The step in which sendto fails returns from         *)
(* scan_udp_port with both sockets closed, sends nothing, waits for        *)
(* nothing and leaves the statistics alone; the next step of the program   *)
(* is main's advance to the following port.                                *)
(***************************************************************************)
C10_SendFailure ==
  [][ /\ (pc = "send" /\ sendrc' < 0) =>
           /\ pc' = "returned"
           /\ sent' = sent
           /\ waits' = waits
           /\ stats' = stats
           /\ udp_sock' = "closed"
           /\ icmp_sock' = "closed"
      /\ (pc = "returned" /\ sendrc < 0) =>
           /\ port' = port + 1
           /\ pc' = (IF port < end_port THEN "scan" ELSE "stats")
           /\ stats'.open_ports = stats.open_ports
           /\ stats'.closed_ports = stats.closed_ports
           /\ stats'.filtered_ports = stats.filtered_ports
           /\ history'[Len(history')].sent = Len(attempts)
    ]_vars

\* port 53 was aborted by a failing second send, port 54 is being probed
C10_Witness ==
  /\ Len(history) = 1
  /\ history[1].abort = "send"
  /\ history[1].sent = 1
  /\ Len(history[1].attempts) = 1
  /\ pc = "recv"
  /\ sent = 1

(***************************************************************************)
(* C11  Wait failure is not retried.  When select fails, the port's probe  *)
(* is aborted: the loop is left and no further probe is sent; a re-send    *)
(* follows only a wait that ended with an ambiguous verdict (1 or 3).      *)
(***************************************************************************)
C11_WaitFailureAborts ==
  [][ /\ (pc = "recv" /\ ev'.ret < 0) => pc' \in {"close", "returned"}
      /\ (pc = "recv" /\ pc' = "send") => last'.result \in {1, 3}
    ]_vars

(***************************************************************************)
(* C12  Degraded mode.  A run that cannot create raw sockets still probes  *)
(* every port of the range over UDP, and each port ends with verdict Open  *)
(* or OpenOrFiltered.                                                      *)
(***************************************************************************)
C12_DegradedMode ==
  (pc = "exit0" /\ ~privileged) =>
    /\ Len(history) = end_port - start_port + 1
    /\ \A k \in 1..Len(history) :
         /\ history[k].sent >= 1
         /\ FinalVerdict(history[k].attempts) \in {0, 1}

(***************************************************************************)
(* C13  Raw-socket failure aborts only the current port.  The step in      *)
(* which socket(SOCK_RAW) fails returns from scan_udp_port with the UDP    *)
(* socket closed, nothing sent and the statistics untouched; the next step *)
(* is main's advance to the following port (no second socket() for the     *)
(* same port), with no verdict counter changed.                            *)
(***************************************************************************)
C13_RawSocketFailure ==
  [][ /\ (pc = "icmp" /\ icmp_sock' = "failed") =>
           /\ pc' = "returned"
           /\ udp_sock' = "closed"
           /\ sent' = 0
           /\ waits' = 0
           /\ stats' = stats
      /\ (pc = "returned" /\ icmp_sock = "failed") =>
           /\ sent = 0
           /\ waits = 0
           /\ port' = port + 1
           /\ pc' = (IF port < end_port THEN "scan" ELSE "stats")
           /\ stats'.open_ports = stats.open_ports
           /\ stats'.closed_ports = stats.closed_ports
           /\ stats'.filtered_ports = stats.filtered_ports
    ]_vars

\* the first port lost its raw socket, the second one is being probed
C13_Witness ==
  /\ Len(history) = 1
  /\ history[1].abort = "icmp"
  /\ history[1].sent = 0
  /\ pc = "recv"
  /\ sent = 1

(***************************************************************************)
(* C14  Scoped socket release.  The process never holds more than one UDP  *)
(* socket and one raw socket, never closes a descriptor twice, and holds   *)
(* no socket whenever scan_udp_port is not running, whichever way it was   *)
(* left.                                                                   *)
(***************************************************************************)
C14_ScopedRelease ==
  /\ fds.udp \in 0..1
  /\ fds.raw \in 0..1
  /\ fds.dbl = 0
  /\ pc \in {"main", "exit1", "scan", "returned", "stats", "exit0"} =>
       /\ fds.udp = 0
       /\ fds.raw = 0
       /\ udp_sock # "open"
       /\ icmp_sock # "open"

\* the second port of a scan was left through the send-failure path
C14_Witness ==
  /\ pc = "returned"
  /\ abort = "send"
  /\ udp_sock = "closed"
  /\ icmp_sock = "closed"
  /\ Len(history) = 1
  /\ history[1].abort = "icmp"

(***************************************************************************)
(* C15  Range validation.  With a wrong argument count, start < 1,         *)
(* end > 65535 or start > end the program goes from its start to exit      *)
(* code 1 only: no socket is ever opened, nothing is sent, no counter      *)
(* changes.                                                                *)
(***************************************************************************)
C15_RangeValidation ==
  (argc # 4 \/ start_port < 1 \/ end_port > 65535 \/ start_port > end_port) =>
    /\ pc \in {"main", "exit1"}
    /\ fds = [udp |-> 0, raw |-> 0, dbl |-> 0]
    /\ udp_sock = "unset"
    /\ icmp_sock = "unset"
    /\ sends = <<>>
    /\ sent = 0
    /\ history = <<>>
    /\ stats = [total_ports |-> 0, open_ports |-> 0, closed_ports |-> 0,
                filtered_ports |-> 0]

C15_Witness ==
  /\ pc = "exit1"
  /\ argc = 4
  /\ start_port = 65535
  /\ end_port = 65536

(***************************************************************************)
(* C16  Scan completion.  From valid arguments the program reaches exit    *)
(* code 0 whatever the sockets, sends and waits do; at that point every    *)
(* port of the range has been processed in order, total_ports is           *)
(* end - start + 1, and the end timestamp is taken at exit only.           *)
(***************************************************************************)
C16_ScanCompletion ==
  /\ [](pc = "exit0" =>
          /\ stats.total_ports = end_port - start_port + 1
          /\ Len(history) = end_port - start_port + 1
          /\ \A k \in 1..Len(history) : history[k].port = start_port + k - 1
          /\ timed.end_time)
  /\ [](timed.end_time => pc = "exit0")
  /\ (argc = 4 /\ 1 <= start_port /\ start_port <= end_port /\ end_port <= 65535)
        => <>(pc = "exit0")

\* a scan that ended although its two ports were both aborted
C16_Witness ==
  /\ pc = "exit0"
  /\ stats.total_ports = 2
  /\ history[1].abort = "send"
  /\ history[2].abort = "icmp"

C18_CrossPortIsolation ==
  last.result \in {2, 3} => ev.orig = port

(***************************************************************************)
(* C19  Catalog lookup (udp_scanner_extended.c).  The probe a port is      *)
(* scanned with is the table entry of lowest index with that port, for     *)
(* port 53 the first of its two entries, and the empty generic probe when  *)
(* the table has no entry for the port.                                    *)
(***************************************************************************)
EntriesFor(T, p) == {k \in 1..Len(T) : T[k].port = p}

C19_CatalogLookup ==
  (variant = "extended" /\ icmp_sock = "open") =>
    /\ IF EntriesFor(udp_probes_extended, port) = {}
       THEN probe = [port |-> 0, service_name |-> "unknown", payload |-> "empty_probe",
                     payload_len |-> 0]
       ELSE \E k \in EntriesFor(udp_probes_extended, port) :
              /\ \A j \in EntriesFor(udp_probes_extended, port) : k <= j
              /\ probe = udp_probes_extended[k]
    /\ port = 53 => (probe.payload = "dns_status_probe" /\ probe.payload_len = 12)

\* port 53, which has two entries, with its probe out
C19_Witness ==
  /\ variant = "extended"
  /\ pc = "recv"
  /\ port = 53
  /\ Cardinality(EntriesFor(udp_probes_extended, 53)) = 2
  /\ probe.payload = "dns_status_probe"

(***************************************************************************)
(* C20  Probe selection.  Every datagram sent for a port is the payload of *)
(* the port's first table entry, or the empty datagram when there is no    *)
(* entry or the entry's payload is empty; an empty datagram is transmitted *)
(* like any other and each transmission is followed by one wait.           *)
(***************************************************************************)
ExpectedDatagram(p) ==
  LET T == Table(variant)
      M == EntriesFor(T, p)
      f == CHOOSE k \in M : \A j \in M : k <= j
  IN IF M = {} \/ T[f].payload_len = 0
     THEN [dst |-> p, payload |-> "", len |-> 0]
     ELSE [dst |-> p, payload |-> T[f].payload, len |-> T[f].payload_len]

C20_ProbeSelection ==
  /\ \A j \in 1..Len(sends) : sends[j] = ExpectedDatagram(port)
  /\ Len(sends) = sent
  /\ pc = "recv" => waits = Len(sends) - 1
  /\ pc \in {"send", "close", "returned"} => waits = Len(sends)
  /\ \A k \in 1..Len(history) :
       /\ \A j \in 1..Len(history[k].sends) :
            history[k].sends[j] = ExpectedDatagram(history[k].port)
       /\ Len(history[k].attempts) = Len(history[k].sends)

\* port 53 got its 30-byte probe, port 54 two empty datagrams and two waits
C20_Witness ==
  /\ pc = "returned"
  /\ abort = "none"
  /\ port = 54
  /\ sends = <<[dst |-> 54, payload |-> "", len |-> 0], [dst |-> 54, payload |-> "", len |-> 0]>>
  /\ Len(attempts) = 2
  /\ Len(history) = 1
  /\ Len(history[1].sends) = 1
  /\ history[1].sends[1] = [dst |-> 53, payload |-> "dns_probe", len |-> 30]
(***************************************************************************)
(* C21  No ICMP correlation.  The verdict taken from a destination-        *)
(* unreachable message is a function of its type and code alone: whatever  *)
(* port the quoted datagram was sent to, this one or an earlier one, code   *)
(* port-unreachable gives Closed and any other code Filtered for the port   *)
(* being probed, so two messages that differ only in what they quote give   *)
(* the same verdict.                                                        *)
(***************************************************************************)
VerdictOfCode(k) == IF k = 3 THEN 2 ELSE 3

C21_NoIcmpCorrelation ==
  ( /\ ev.ret > 0
    /\ ~(ev.udp_set /\ ev.udp_n > 0)
    /\ ev.icmp_set
    /\ ev.icmp_n > 0
    /\ ev.icmp_type = 3 )
  => /\ last.result = VerdictOfCode(ev.icmp_code)
     /\ last.code = ev.icmp_code

\* port 54 is reported Closed by a message that quotes the probe of port 53
C21_Witness ==
  /\ port = 54
  /\ ev.icmp_type = 3
  /\ ev.icmp_code = 3
  /\ ev.orig = 53
  /\ last.result = 2
(***************************************************************************)
(* C22  Fixed per-attempt deadline.  Every select() of a port is called     *)
(* with the full 2 s, whatever the earlier waits of the port took; a wait   *)
(* that ends with the timeout outcome has lasted the full 2 s; the time a   *)
(* port spends waiting is at most 2 s per wait, 4 s in all.                 *)
(***************************************************************************)
C22_FixedDeadline ==
  clock.on =>
    /\ waits > 0 => clock.armed = 2
    /\ ev.ret = 0 => clock.dt = 2
    /\ clock.dt <= 2
    /\ clock.waited <= 2 * waits
    /\ clock.waited <= 2 * 2
    /\ AllSilent(attempts) => clock.waited = 2 * Len(attempts)

\* a first wait cut short after 1 s by an ambiguous ICMP message, then a
\* second wait that ran its full 2 s
C22_Witness ==
  /\ clock.on
  /\ pc = "returned"
  /\ attempts = <<[sel |-> "ready", result |-> 3], [sel |-> "timeout", result |-> 1]>>
  /\ clock.armed = 2
  /\ clock.dt = 2
  /\ clock.waited = 3
(***************************************************************************)
(* C23  Universal send bound.  Whatever the attempts of a port return, the  *)
(* port gets between 0 and 2 probes; receive_response is only called right  *)
(* after a sendto that succeeded, once per such send, so the waits never    *)
(* outnumber the probes sent.                                               *)
(***************************************************************************)
C23_SendBound ==
  /\ [](/\ sent \in 0..2
        /\ waits <= sent
        /\ sent <= waits + 1
        /\ \A k \in 1..Len(history) :
             /\ history[k].sent \in 0..2
             /\ Len(history[k].attempts) <= history[k].sent)
  /\ [][ waits' > waits =>
           /\ waits' = waits + 1
           /\ sendrc = 0
           /\ sent = waits + 1
           /\ sent' = sent
       ]_vars

\* a first attempt without verdict, then a second send that failed
C23_Witness ==
  /\ pc = "returned"
  /\ abort = "send"
  /\ sent = 1
  /\ waits = 1
  /\ attempts = <<[sel |-> "error", result |-> -1]>>
  /\ Len(history) = 1
  /\ history[1].sent = 2
  /\ Len(history[1].attempts) = 2
(***************************************************************************)
(* C24  Per-attempt counting.  At every moment open + closed + filtered is  *)
(* the number of calls of receive_response so far that returned a verdict   *)
(* (0, 1, 2 or 3), and filtered the number of those that returned 1 or 3;   *)
(* one port adds between 0 and 2 to the sum, and up to 2 to filtered alone. *)
(***************************************************************************)
\* the attempts of the record as with a result in S
Returned(as, S) == Cardinality({k \in 1..Len(as) : as[k].result \in S})

\* the same, summed over the first k ports of the history
RECURSIVE ReturnedBefore(_, _)
ReturnedBefore(k, S) ==
  IF k = 0 THEN 0 ELSE ReturnedBefore(k - 1, S) + Returned(history[k].attempts, S)

C24_PerAttemptCounting ==
  /\ stats.open_ports + stats.closed_ports + stats.filtered_ports
       = ReturnedBefore(Len(history), {0, 1, 2, 3}) + Returned(attempts, {0, 1, 2, 3})
  /\ stats.filtered_ports
       = ReturnedBefore(Len(history), {1, 3}) + Returned(attempts, {1, 3})
  /\ Returned(attempts, {0, 1, 2, 3}) \in 0..2
  /\ \A k \in 1..Len(history) : Returned(history[k].attempts, {0, 1, 2, 3}) \in 0..2

\* a first port without any verdict, a second one that added 2 to filtered:
\* one port finished, one in progress, and a sum of 2
C24_Witness ==
  /\ pc = "returned"
  /\ Len(history) = 1
  /\ Len(history[1].attempts) = 2
  /\ Returned(history[1].attempts, {0, 1, 2, 3}) = 0
  /\ Returned(attempts, {1, 3}) = 2
  /\ stats.total_ports = 1
  /\ stats.filtered_ports = 2
  /\ stats.open_ports + stats.closed_ports = 0
(***************************************************************************)
(* C25  Definitive counters at most once per port.  A step changes at most  *)
(* one of open and closed, by 1, and after it no counter of the three       *)
(* changes until main has moved to the next port; so a port has at most one *)
(* attempt that returned 0 or 2, its last one, and open + closed is at most *)
(* the number of ports finished plus the one in progress.                   *)
(***************************************************************************)
C25_DefinitiveOnce ==
  /\ [](/\ Returned(attempts, {0, 2}) <= 1
        /\ \A k \in 1..Len(attempts) : attempts[k].result \in {0, 2} => k = Len(attempts)
        /\ \A k \in 1..Len(history) : Returned(history[k].attempts, {0, 2}) <= 1
        /\ stats.open_ports = ReturnedBefore(Len(history), {0}) + Returned(attempts, {0})
        /\ stats.closed_ports = ReturnedBefore(Len(history), {2}) + Returned(attempts, {2})
        /\ stats.open_ports + stats.closed_ports
             <= stats.total_ports + (IF InPort THEN 1 ELSE 0))
  /\ [][ /\ (stats'.open_ports # stats.open_ports \/ stats'.closed_ports # stats.closed_ports) =>
             /\ stats'.open_ports + stats'.closed_ports
                  = stats.open_ports + stats.closed_ports + 1
             /\ stats'.open_ports >= stats.open_ports
             /\ stats'.closed_ports >= stats.closed_ports
             /\ stats'.filtered_ports = stats.filtered_ports
             /\ Returned(attempts, {0, 2}) = 0
             /\ pc' = "close"
         /\ (Returned(attempts, {0, 2}) = 1 /\ port' = port) =>
             /\ stats' = stats
             /\ sent' = sent
             /\ waits' = waits
       ]_vars

\* the first port was closed on its first attempt, the second answered on
\* its second attempt, after one ambiguous wait
C25_Witness ==
  /\ pc = "returned"
  /\ Len(history) = 1
  /\ history[1].attempts = <<[sel |-> "ready", result |-> 2]>>
  /\ attempts = <<[sel |-> "timeout", result |-> 1], [sel |-> "ready", result |-> 0]>>
  /\ stats.open_ports = 1
  /\ stats.closed_ports = 1
  /\ stats.filtered_ports = 1
(***************************************************************************)
(* C26  total_ports counts iterations.  It changes only in main's step      *)
(* after scan_udp_port has returned, by exactly 1 and together with port++, *)
(* whether the port was aborted, got no verdict or got one; so at the head  *)
(* of the loop, and all through the scan, total_ports = port - start_port,  *)
(* whatever the other counters hold.                                        *)
(***************************************************************************)
C26_TotalCountsIterations ==
  /\ [](/\ pc \in {"scan", "icmp", "send", "recv", "close", "returned", "stats", "exit0"}
             => stats.total_ports = port - start_port
        /\ stats.total_ports = Len(history))
  /\ [][ /\ stats'.total_ports # stats.total_ports =>
             /\ pc = "returned"
             /\ stats'.total_ports = stats.total_ports + 1
             /\ port' = port + 1
             /\ stats'.open_ports = stats.open_ports
             /\ stats'.closed_ports = stats.closed_ports
             /\ stats'.filtered_ports = stats.filtered_ports
         /\ pc = "returned" => stats'.total_ports = stats.total_ports + 1
       ]_vars

\* after a port that lost its UDP socket and a port whose two attempts both
\* returned without verdict: 2 ports counted, no other counter touched
C26_Witness ==
  /\ pc = "stats"
  /\ stats = [total_ports |-> 2, open_ports |-> 0, closed_ports |-> 0, filtered_ports |-> 0]
  /\ port = start_port + 2
  /\ history[1].abort = "udp"
  /\ history[2].abort = "none"
  /\ Len(history[2].attempts) = 2
(***************************************************************************)
(* C27  No-verdict attempts leave the statistics unchanged.  A call of      *)
(* receive_response that meets a select error, an unusable UDP read (failed *)
(* or empty) without a usable ICMP datagram, an ICMP message of another     *)
(* type, or a failed ICMP read returns -1; such a call changes none of the  *)
(* four counters, and the loop goes on after it as after an ambiguous       *)
(* verdict: i is stepped and the probe is sent again while i < 2.           *)
(***************************************************************************)
\* the events the claim lists
NoVerdictEvent(e) ==
  \/ e.ret = -1
  \/ /\ e.ret > 0
     /\ ~(e.udp_set /\ e.udp_n > 0)
     /\ \/ ~e.icmp_set
        \/ e.icmp_n <= 0
        \/ e.icmp_type # 3

C27_NoVerdictFrame ==
  [][ pc = "recv" =>
        /\ NoVerdictEvent(ev') <=> last'.result = -1
        /\ last'.result = -1 => stats' = stats
        /\ last'.result \in {-1, 1, 3} =>
             /\ i' = i + 1
             /\ pc' = (IF i + 1 < 2 THEN "send" ELSE "close")
             /\ sent' = sent
             /\ stats'.total_ports = stats.total_ports
    ]_vars

\* a wait error on the first attempt was followed by a second probe, whose
\* wait read an echo reply: two attempts, no counter changed
C27_Witness ==
  /\ pc = "close"
  /\ sent = 2
  /\ attempts = <<[sel |-> "error", result |-> -1], [sel |-> "ready", result |-> -1]>>
  /\ ev.icmp_n > 0
  /\ ev.icmp_type = 0
  /\ stats = [total_ports |-> 0, open_ports |-> 0, closed_ports |-> 0, filtered_ports |-> 0]
(***************************************************************************)
(* C28  One probe state machine.  Run on the same arguments, with every     *)
(* socket(), sendto(), select() and recvfrom() returning the same to both,  *)
(* udp_scanner.c and udp_scanner_extended.c are at every step at the same   *)
(* place with the same sockets open or closed, the same number of probes    *)
(* sent and waits made, and the same four counters; the probe they look up  *)
(* is each program's own table entry.                                       *)
(***************************************************************************)
C28_SameStateMachine ==
  ext.on =>
    /\ ext.pc = pc
    /\ ext.port = port
    /\ ext.i = i
    /\ ext.udp_sock = udp_sock
    /\ ext.icmp_sock = icmp_sock
    /\ ext.fds = fds
    /\ ext.sent = sent
    /\ ext.waits = waits
    /\ ext.stats = stats
    /\ pc \in {"send", "recv", "close"} =>
         /\ probe = (IF EntriesFor(udp_probes, port) = {}
                     THEN [port |-> 0, service_name |-> "unknown", payload |-> "empty_probe",
                           payload_len |-> 0]
                     ELSE udp_probes[CHOOSE k \in EntriesFor(udp_probes, port) :
                                       \A j \in EntriesFor(udp_probes, port) : k <= j])
         /\ ext.probe.port = (IF EntriesFor(udp_probes_extended, port) = {} THEN 0 ELSE port)

\* both programs at exit 0 after ports 68 and 69, with two probes and two
\* ambiguous waits on port 69, for which one table has an empty payload and
\* the other 17 bytes
C28_Witness ==
  /\ ext.on
  /\ pc = "exit0"
  /\ ext.pc = "exit0"
  /\ Len(history) = 2
  /\ history[1].port = 68
  /\ history[2].port = 69
  /\ history[2].sends = <<[dst |-> 69, payload |-> "", len |-> 0],
                          [dst |-> 69, payload |-> "", len |-> 0]>>
  /\ SelectProbe(udp_probes_extended, 69).payload_len = 17
  /\ Len(history[2].attempts) = 2
  /\ ext.stats = stats
  /\ stats.total_ports = 2
  /\ stats.filtered_ports >= 2
(***************************************************************************)
(* C29  The ICMP header is read inside the received datagram.  A Closed or  *)
(* Filtered verdict taken from the raw socket rests on a type and a code    *)
(* that lie within the n bytes recvfrom() returned: 4 * ip_hl + 2 <= n.     *)
(***************************************************************************)
C29_HeaderInsideDatagram ==
  (ev.ret > 0 /\ last.result \in {2, 3}) => 4 * ev.ip_hl + 2 <= ev.icmp_n

====
